---- MODULE Spec2Model ----
(***************************************************************************)
(* Price-error alignment pipeline of NEMStorageUnderUncertainty            *)
(* (src/price-characterisation/historical-price-errors.py,                 *)
(* calculate_price_error).  Times are minutes on one clock; a table is a   *)
(* sequence of records whose fields are the data-frame columns.            *)
(***************************************************************************)
EXTENDS Integers, Sequences, FiniteSets, TLC

(* ---------------------------------------------------------------------- *)
(* Bounds and input domains                                                *)
(* ---------------------------------------------------------------------- *)

\* Total number of rows the three providers hand over in one analysis window.
MaxRows == 4

Regions == {"NSW1", "QLD1"}
\* Target instants of the window (minutes).
ForecastedTimes == {60, 90}
\* Nominal run times present in the P5MIN and PREDISPATCH caches.  PREDISPATCH
\* runs are half-hourly: for target 90 they are 90, 60 and 30 minutes ahead.
P5RunTimes == {5, 85}
PDRunTimes == {30, 60, 90}
ForecastRRPs == {60}
ActualRRPs == {65}

(* ---------------------------------------------------------------------- *)
(* Program constants                                                       *)
(* ---------------------------------------------------------------------- *)

\* pd.Timedelta(minutes=5) / pd.Timedelta(minutes=30): nominal run time minus lag.
P5Lag == 5
PDLag == 30
\* timedelta(minutes=5) of nemosis_window.
NemosisLead == 5
\* The slice stopping three rows before the end of the group.
SliceStopThree == -2 - 1

\* nth(slice(None, -2)): the slice stops two rows before the end of the group.
SliceStop == -2
\* The missing value a left merge leaves in RRP for an unmatched forecast row.
NaN == -1000000

(* ---------------------------------------------------------------------- *)
(* Data-frame helpers                                                      *)
(* ---------------------------------------------------------------------- *)

Range(s) == {s[i] : i \in 1..Len(s)}

\* Number of rows of table s equal to row r.
Count(s, r) == Cardinality({i \in 1..Len(s) : s[i] = r})

\* Lexicographic "strictly before" on the columns named in by.
RECURSIVE LexLess(_, _, _)
LexLess(a, b, by) ==
    IF by = <<>> THEN FALSE
    ELSE \/ a[Head(by)] < b[Head(by)]
         \/ a[Head(by)] = b[Head(by)] /\ LexLess(a, b, Tail(by))

\* Stable insertion of x into the sorted table s: x goes after every row that
\* is not greater than it (sort_values on several columns is a stable lexsort,
\* so rows with equal keys keep their incoming order).
RECURSIVE InsertStable(_, _, _)
InsertStable(s, x, by) ==
    IF s = <<>> THEN <<x>>
    ELSE IF LexLess(x, Head(s), by) THEN <<x>> \o s
    ELSE <<Head(s)>> \o InsertStable(Tail(s), x, by)

\* DataFrame.sort_values(by): ascending, stable.
RECURSIVE SortValues(_, _)
SortValues(s, by) ==
    IF s = <<>> THEN <<>>
    ELSE InsertStable(SortValues(SubSeq(s, 1, Len(s) - 1), by), s[Len(s)], by)

\* Arithmetic on a column that may hold NaN.
NanSub(a, b) == IF a = NaN \/ b = NaN THEN NaN ELSE a - b

\* Rows a and b agree on every column named in by.
SameKey(a, b, by) == \A k \in 1..Len(by) : a[by[k]] = b[by[k]]

\* df.groupby(by, as_index=False).nth(slice(None, stop)): a row is kept when its
\* position inside its group (counted in table order) lies in the slice; the
\* kept rows stay in table order.
GroupbyNthSlice(df, by, stop) ==
    LET pos(i) == Cardinality({j \in 1..(i - 1) : SameKey(df[j], df[i], by)})
        size(i) == Cardinality({j \in 1..Len(df) : SameKey(df[j], df[i], by)})
        end(i) == IF stop < 0 THEN size(i) + stop ELSE stop
        kept == {i \in 1..Len(df) : pos(i) < end(i)}
        rank(i) == Cardinality({j \in kept : j <= i})
    IN  [n \in 1..Cardinality(kept) |-> df[CHOOSE i \in kept : rank(i) = n]]

\* pd.merge(left, right, how="left", on=on) where right brings the column RRP:
\* every left row, in left order, once per matching right row (in right order),
\* or once with RRP missing when no right row matches.
RECURSIVE MergeLeft(_, _, _)
MergeLeft(left, right, on) ==
    IF left = <<>> THEN <<>>
    ELSE LET l == Head(left)
             hits == SelectSeq(right, LAMBDA r : SameKey(l, r, on))
             rows == IF hits = <<>>
                     THEN << [forecasted_time |-> l.forecasted_time,
                              REGIONID |-> l.REGIONID,
                              FORECASTED_RRP |-> l.FORECASTED_RRP,
                              actual_run_time |-> l.actual_run_time,
                              RRP |-> NaN] >>
                     ELSE [k \in 1..Len(hits) |->
                             [forecasted_time |-> l.forecasted_time,
                              REGIONID |-> l.REGIONID,
                              FORECASTED_RRP |-> l.FORECASTED_RRP,
                              actual_run_time |-> l.actual_run_time,
                              RRP |-> hits[k].RRP]]
         IN  rows \o MergeLeft(Tail(left), right, on)

(* ---------------------------------------------------------------------- *)
(* calculate_price_error and its nested functions                          *)
(* ---------------------------------------------------------------------- *)

\* ftype mappings of get_forecast_price_data.
run_col == [PREDISPATCH |-> "PREDISPATCH_RUN_DATETIME", P5MIN |-> "RUN_DATETIME"]
forecasted_col == [PREDISPATCH |-> "DATETIME", P5MIN |-> "INTERVAL_DATETIME"]

\* get_forecast_price_data without the final sort_values: the rows stay in the
\* order compile_data returned them.
get_forecast_price_data_unsorted(ftype, df) ==
    LET kept == SelectSeq(df, LAMBDA r :
                    "INTERVENTION" \in DOMAIN r => r.INTERVENTION = 0)
    IN  [i \in 1..Len(kept) |->
            [run_time |-> kept[i][run_col[ftype]],
             forecasted_time |-> kept[i][forecasted_col[ftype]],
             REGIONID |-> kept[i].REGIONID,
             RRP |-> kept[i].RRP]]

\* get_forecast_price_data(ftype) applied to the table df that compile_data
\* returned: drop intervention rows when the column exists, rename the run and
\* target columns, project, sort by (forecasted_time, run_time).
get_forecast_price_data(ftype, df) ==
    LET kept == SelectSeq(df, LAMBDA r :
                    "INTERVENTION" \in DOMAIN r => r.INTERVENTION = 0)
        renamed == [i \in 1..Len(kept) |->
                      [run_time |-> kept[i][run_col[ftype]],
                       forecasted_time |-> kept[i][forecasted_col[ftype]],
                       REGIONID |-> kept[i].REGIONID,
                       RRP |-> kept[i].RRP]]
    IN  SortValues(renamed, <<"forecasted_time", "run_time">>)

\* df["actual_run_time"] = df["run_time"] - lag; df.drop(columns="run_time").
WithActualRunTime(df, lag) ==
    [i \in 1..Len(df) |->
        [forecasted_time |-> df[i].forecasted_time,
         REGIONID |-> df[i].REGIONID,
         RRP |-> df[i].RRP,
         actual_run_time |-> df[i].run_time - lag]]

\* The trim taken from the wrong end of the group, nth(slice(2, None)): the
\* first two rows of every group are left out.
RemovePdOverlapHead(pdf) ==
    LET rev(t) == [i \in 1..Len(t) |-> t[Len(t) + 1 - i]]
    IN  rev(GroupbyNthSlice(rev(pdf), <<"forecasted_time", "REGIONID">>, -2))

\* The trim grouped by forecasted_time alone: the last two rows of every
\* target instant are left out, whatever their region.
RemovePdOverlapByTime(pdf) ==
    GroupbyNthSlice(pdf, <<"forecasted_time">>, SliceStop)

\* The trim without the groupby, pd_df.iloc[:-2]: the last two rows of the
\* whole table are left out.
RemovePdOverlapNoGroup(pdf) == SubSeq(pdf, 1, Len(pdf) - 2)

\* "remove PD overlap with P5MIN": the last two rows of every
\* (forecasted_time, REGIONID) group are left out.
RemovePdOverlap(pdf) ==
    GroupbyNthSlice(pdf, <<"forecasted_time", "REGIONID">>, SliceStop)

\* A union in place of the concatenation: P5MIN rows already present among the
\* trimmed PREDISPATCH rows are not repeated.
ConcatDistinct(nooverlap, p5f) ==
    nooverlap \o SelectSeq(p5f, LAMBDA r : r \notin Range(nooverlap))

\* pd.concat([pd_nooverlap, p5_df], axis=0).
Concat(nooverlap, p5f) == nooverlap \o p5f

\* combine_pd_p5_forecasts without sort_values: the trimmed PREDISPATCH rows,
\* then the P5MIN rows.
CombineForecastsUnsorted(nooverlap, p5f) ==
    LET both == Concat(nooverlap, p5f)
    IN  [i \in 1..Len(both) |->
            [forecasted_time |-> both[i].forecasted_time,
             REGIONID |-> both[i].REGIONID,
             FORECASTED_RRP |-> both[i].RRP,
             actual_run_time |-> both[i].actual_run_time]]

\* combine_pd_p5_forecasts, after the trim: concatenate, sort, rename RRP.
CombineForecasts(nooverlap, p5f) ==
    LET sorted == SortValues(Concat(nooverlap, p5f),
                             <<"forecasted_time", "actual_run_time">>)
    IN  [i \in 1..Len(sorted) |->
            [forecasted_time |-> sorted[i].forecasted_time,
             REGIONID |-> sorted[i].REGIONID,
             FORECASTED_RRP |-> sorted[i].RRP,
             actual_run_time |-> sorted[i].actual_run_time]]

combine_pd_p5_forecasts(p5f, pdf) == CombineForecasts(RemovePdOverlap(pdf), p5f)

\* The analysis window of a call, in minutes: the first and the last target
\* instant.
window_start == CHOOSE t \in ForecastedTimes : \A u \in ForecastedTimes : t <= u
window_end == CHOOSE t \in ForecastedTimes : \A u \in ForecastedTimes : u <= t

\* The window asked of nemosis without the five minutes of lead.
nemosis_window_nolead(a_start, a_end) == <<a_start, a_end>>

\* nemosis_window: "nemosis start time must precede end of interval of
\* interest by 5 minutes".
nemosis_window(a_start, a_end) == <<a_start - NemosisLead, a_end>>

\* nemosis.dynamic_data_compiler(start_time, end_time, "DISPATCHPRICE", ...,
\* filter_cols=["INTERVENTION"], filter_values=([0],)) applied to the cache:
\* the rows that end an interval after start_time and up to end_time.
DynamicDataCompiler(start_time, end_time, cached) ==
    SelectSeq(cached, LAMBDA r :
        /\ r.INTERVENTION \in {0}
        /\ start_time < r.SETTLEMENTDATE
        /\ r.SETTLEMENTDATE <= end_time)

\* get_actual_price_data: compile the window, project to SETTLEMENTDATE,
\* REGIONID, RRP and rename SETTLEMENTDATE to forecasted_time.
get_actual_price_data(a_start, a_end, cached) ==
    LET window == nemosis_window(a_start, a_end)
        nemosis_price == DynamicDataCompiler(window[1], window[2], cached)
    IN  [i \in 1..Len(nemosis_price) |->
            [forecasted_time |-> nemosis_price[i].SETTLEMENTDATE,
             REGIONID |-> nemosis_price[i].REGIONID,
             RRP |-> nemosis_price[i].RRP]]

\* The subtraction taken the other way round: actual_run_time - forecasted_time.
AheadTimeReversed(row) == row.actual_run_time - row.forecasted_time

\* all_prices["ahead_time"] = forecasted_time - actual_run_time.
AheadTime(row) == row.forecasted_time - row.actual_run_time

\* The forecast error with the operands swapped: FORECASTED_RRP - RRP.
ErrorReversed(row) == NanSub(row.FORECASTED_RRP, row.RRP)

\* A missing actual price read as 0 (fillna(0)) before the subtraction.
ErrorFillZero(row) == (IF row.RRP = NaN THEN 0 ELSE row.RRP) - row.FORECASTED_RRP

\* all_prices["error"] = RRP - FORECASTED_RRP.
Error(row) == NanSub(row.RRP, row.FORECASTED_RRP)

\* how="inner": forecast rows without an actual price are left out.
MergePricesInner(fp, ap) ==
    SelectSeq(MergeLeft(fp, ap, <<"forecasted_time", "REGIONID">>),
              LAMBDA r : r.RRP # NaN)

\* how="outer": actual prices that no forecast row matches get rows of their own.
MergePricesOuter(fp, ap) ==
    LET on == <<"forecasted_time", "REGIONID">>
        lonely == SelectSeq(ap, LAMBDA r : \A i \in 1..Len(fp) : ~SameKey(fp[i], r, on))
    IN  MergeLeft(fp, ap, on) \o
        [i \in 1..Len(lonely) |->
            [forecasted_time |-> lonely[i].forecasted_time,
             REGIONID |-> lonely[i].REGIONID,
             FORECASTED_RRP |-> NaN,
             actual_run_time |-> NaN,
             RRP |-> lonely[i].RRP]]

\* on=["forecasted_time"]: the region is left out of the join key.
MergePricesOnTime(fp, ap) == MergeLeft(fp, ap, <<"forecasted_time">>)

\* The join of process_price_error.
MergePrices(fp, ap) == MergeLeft(fp, ap, <<"forecasted_time", "REGIONID">>)

\* The derived columns, and the drop of RRP, FORECASTED_RRP and actual_run_time.
DeriveColumns(all_prices) ==
    [i \in 1..Len(all_prices) |->
        [forecasted_time |-> all_prices[i].forecasted_time,
         REGIONID |-> all_prices[i].REGIONID,
         ahead_time |-> AheadTime(all_prices[i]),
         error |-> Error(all_prices[i])]]

\* process_price_error followed by dropna(): rows without an error are left out.
process_price_error_dropna(fp, ap) ==
    SelectSeq(DeriveColumns(MergePrices(fp, ap)), LAMBDA r : r.error # NaN)

\* process_price_error: left merge, derive ahead_time and error, drop RRP,
\* FORECASTED_RRP and actual_run_time.
process_price_error(fp, ap) == DeriveColumns(MergePrices(fp, ap))

(* ---------------------------------------------------------------------- *)
(* Provider tables                                                         *)
(* ---------------------------------------------------------------------- *)

\* Rows of the forecast caches, before the intervention flag is known.
P5RawRows ==
    [RUN_DATETIME : P5RunTimes, INTERVAL_DATETIME : ForecastedTimes,
     REGIONID : Regions, RRP : ForecastRRPs, INTERVENTION : {0}]

PDRawRows ==
    [PREDISPATCH_RUN_DATETIME : PDRunTimes, DATETIME : ForecastedTimes,
     REGIONID : Regions, RRP : ForecastRRPs, INTERVENTION : {0}]

\* The runs that fell into an intervention period: none, or one run.
InterventionRuns(runs) == {{}} \cup {{r} : r \in runs}

\* The table compile_data returns when the rows of the runs in iv carry
\* INTERVENTION = 1.
Intervened(ftype, df, iv) ==
    [i \in 1..Len(df) |->
        [df[i] EXCEPT !.INTERVENTION =
            IF df[i][run_col[ftype]] \in iv THEN 1 ELSE 0]]

\* Rows of the DISPATCHPRICE cache that fall into the requested window.
NemosisRows ==
    [SETTLEMENTDATE : ForecastedTimes, REGIONID : Regions, RRP : ActualRRPs,
     INTERVENTION : {0, 1}]

\* All tables of exactly n rows drawn from rows, in any order.
RECURSIVE TablesOfLen(_, _)
TablesOfLen(rows, n) ==
    IF n = 0 THEN {<<>>}
    ELSE {Append(t, r) : t \in TablesOfLen(rows, n - 1), r \in rows}

P5Tables == [n \in 0..MaxRows |-> TablesOfLen(P5RawRows, n)]
PDTables == [n \in 0..MaxRows |-> TablesOfLen(PDRawRows, n)]
NemosisTables == [n \in 0..MaxRows |-> TablesOfLen(NemosisRows, n)]

(* ---------------------------------------------------------------------- *)
(* State                                                                   *)
(* ---------------------------------------------------------------------- *)

VARIABLES
    pc,               \* the statement reached
    p5_fetched,       \* what get_forecast_price_data("P5MIN") returned
    pd_fetched,       \* what get_forecast_price_data("PREDISPATCH") returned
    p5_df,            \* P5MIN stream
    pd_df,            \* PREDISPATCH stream
    pd_nooverlap,     \* PREDISPATCH stream after the overlap trim
    forecast_prices,  \* merged forecast table
    actual_price,     \* actual prices keyed by forecasted_time
    price_error,      \* the table calculate_price_error returns
    raised,           \* the exception that ended the run, "none" when there is none
    data_dir,         \* whether the directory price-error exists
    files,            \* the files of price-error: file name |-> rows
    files0,           \* the files of price-error when the script started
    nemosis_cache,    \* whether the global name nemosis_cache is bound
    loop_i,           \* index i of the yearly loop
    invoked,          \* start years calculate_price_error was called for
    dispatchprice,    \* the DISPATCHPRICE cache read by get_actual_price_data
    copy,             \* <<script, ftype>> of the get_forecast_price_data that ran
    compiled,         \* the table compile_data handed to it
    forecast_df,      \* the table it returned
    thresh_i,         \* position in the loop over the thresholds
    saved,            \* names of the figures saved so far
    thresh_frac,      \* the results dictionary: threshold |-> region |-> counts
    fit_times,        \* threshold |-> ahead times (minutes) the curves are fitted to
    horizon_minutes,  \* argument of plot_counts_within_horizon
    dummy,            \* its zero-filled array, month |-> value
    bottom,           \* its stacking baseline, month |-> value
    bars,             \* the ax.bar calls: bin number |-> [height, bottom]
    bin_i,            \* bins plotted so far
    returned          \* script |-> what its calculate_price_error returned

pipelineVars == <<p5_fetched, pd_fetched, p5_df, pd_df, pd_nooverlap, forecast_prices, actual_price, price_error>>

scriptVars == <<data_dir, files, files0, nemosis_cache, loop_i, invoked>>

fetchVars == <<copy, compiled, forecast_df>>

analysisVars == <<thresh_i, saved, thresh_frac, fit_times>>

plotVars == <<horizon_minutes, dummy, bottom, bars, bin_i>>

reportVars == <<analysisVars, plotVars, returned>>

vars == <<pc, pipelineVars, raised, scriptVars, dispatchprice, fetchVars, reportVars>>

\* The tables of calculate_price_error before it starts.
PipelineIdle ==
    /\ p5_fetched = <<>>
    /\ pd_fetched = <<>>
    /\ p5_df = <<>>
    /\ pd_df = <<>>
    /\ pd_nooverlap = <<>>
    /\ forecast_prices = <<>>
    /\ actual_price = <<>>
    /\ price_error = <<>>

\* The variables of the yearly script before it starts.
ScriptIdle ==
    /\ data_dir = FALSE
    /\ files = <<>>
    /\ files0 = <<>>
    /\ nemosis_cache = FALSE
    /\ loop_i = 0
    /\ invoked = {}

\* The variables of the analyses of the returned table before they start.
ReportIdle ==
    /\ thresh_i = 0
    /\ saved = {}
    /\ thresh_frac = <<>>
    /\ fit_times = <<>>
    /\ horizon_minutes = 0
    /\ dummy = <<>>
    /\ bottom = <<>>
    /\ bars = <<>>
    /\ bin_i = 0
    /\ returned = <<>>

\* The variables of a single call of get_forecast_price_data before it starts.
FetchIdle ==
    /\ copy = <<"none", "none">>
    /\ compiled = <<>>
    /\ forecast_df = <<>>

Init ==
    /\ pc = "get_p5"
    /\ p5_fetched = <<>>
    /\ pd_fetched = <<>>
    /\ p5_df = <<>>
    /\ pd_df = <<>>
    /\ pd_nooverlap = <<>>
    /\ forecast_prices = <<>>
    /\ actual_price = <<>>
    /\ price_error = <<>>
    /\ raised = "none"
    /\ dispatchprice = <<>>
    /\ ScriptIdle
    /\ FetchIdle
    /\ ReportIdle

\* p5_df = get_forecast_price_data("P5MIN")
GetP5Forecast ==
    /\ pc = "get_p5"
    /\ \E n \in 0..MaxRows : \E df \in P5Tables[n] :
       \E iv \in InterventionRuns(P5RunTimes) :
          p5_df' = get_forecast_price_data("P5MIN", Intervened("P5MIN", df, iv))
    /\ p5_fetched' = p5_df'
    /\ pc' = "get_pd"
    /\ UNCHANGED <<pd_fetched, pd_df, pd_nooverlap, forecast_prices, actual_price, price_error>>
    /\ UNCHANGED <<raised, scriptVars, dispatchprice, fetchVars, reportVars>>

\* pd_df = get_forecast_price_data("PREDISPATCH")
GetPDForecast ==
    /\ pc = "get_pd"
    /\ \E n \in 0..(MaxRows - Len(p5_df)) : \E df \in PDTables[n] :
       \E iv \in InterventionRuns(PDRunTimes) :
          pd_df' = get_forecast_price_data(
                      "PREDISPATCH", Intervened("PREDISPATCH", df, iv))
    /\ pd_fetched' = pd_df'
    /\ pc' = "run_time"
    /\ UNCHANGED <<p5_fetched, p5_df, pd_nooverlap, forecast_prices, actual_price, price_error>>
    /\ UNCHANGED <<raised, scriptVars, dispatchprice, fetchVars, reportVars>>

\* actual run time of each forecast type; run_time is dropped
CalcActualRunTime ==
    /\ pc = "run_time"
    /\ p5_df' = WithActualRunTime(p5_df, P5Lag)
    /\ pd_df' = WithActualRunTime(pd_df, PDLag)
    /\ pc' = "combine"
    /\ UNCHANGED <<p5_fetched, pd_fetched, pd_nooverlap, forecast_prices, actual_price, price_error>>
    /\ UNCHANGED <<raised, scriptVars, dispatchprice, fetchVars, reportVars>>

\* forecast_prices = combine_pd_p5_forecasts(p5_df, pd_df)
CombinePdP5 ==
    /\ pc = "combine"
    /\ pd_nooverlap' = RemovePdOverlap(pd_df)
    /\ forecast_prices' = combine_pd_p5_forecasts(p5_df, pd_df)
    /\ pc' = "get_actual"
    /\ UNCHANGED <<p5_fetched, pd_fetched, p5_df, pd_df, actual_price, price_error>>
    /\ UNCHANGED <<raised, scriptVars, dispatchprice, fetchVars, reportVars>>

\* actual_price = get_actual_price_data()
GetActualPrice ==
    /\ pc = "get_actual"
    /\ \E n \in 0..(MaxRows - Len(p5_df) - Len(pd_df)) :
          \E cached \in NemosisTables[n] :
             actual_price' = get_actual_price_data(window_start, window_end, cached)
    /\ pc' = "process"
    /\ UNCHANGED <<p5_fetched, pd_fetched, p5_df, pd_df, pd_nooverlap,
                   forecast_prices, price_error>>
    /\ UNCHANGED <<raised, scriptVars, dispatchprice, fetchVars, reportVars>>

\* price_error = process_price_error(forecast_prices, actual_price); return
ProcessPriceError ==
    /\ pc = "process"
    /\ price_error' = process_price_error(forecast_prices, actual_price)
    /\ pc' = "done"
    /\ UNCHANGED <<p5_fetched, pd_fetched, p5_df, pd_df, pd_nooverlap,
                   forecast_prices, actual_price>>
    /\ UNCHANGED <<raised, scriptVars, dispatchprice, fetchVars, reportVars>>

Next ==
    \/ GetP5Forecast
    \/ GetPDForecast
    \/ CalcActualRunTime
    \/ CombinePdP5
    \/ GetActualPrice
    \/ ProcessPriceError

Spec == Init /\ [][Next]_vars

(* ---------------------------------------------------------------------- *)
(* Properties                                                              *)
(* ---------------------------------------------------------------------- *)

Combined == pc \in {"get_actual", "process", "done"}
Done == pc = "done"

Keys == ForecastedTimes \X Regions

\* Indices of the rows of table t that belong to group k = <<time, region>>.
Group(t, k) ==
    {i \in 1..Len(t) : t[i].forecasted_time = k[1] /\ t[i].REGIONID = k[2]}

Max(a, b) == IF a >= b THEN a ELSE b

\* Rows of the PREDISPATCH stream that the trim removed (with multiplicity > 0).
Trimmed == {r \in Range(pd_df) : Count(pd_df, r) > Count(pd_nooverlap, r)}

\* C1: once the streams are combined, every (forecasted_time, region) group
\* of n PREDISPATCH rows has max(n - 2, 0) rows left in the trimmed stream,
\* the rows left are rows of the stream, and none of them ran later than a
\* row of the group that was removed.
C1_OverlapTrim ==
    Combined =>
        /\ \A r \in Range(pd_nooverlap) : Count(pd_nooverlap, r) <= Count(pd_df, r)
        /\ \A k \in Keys :
              /\ Cardinality(Group(pd_nooverlap, k))
                    = Max(Cardinality(Group(pd_df, k)) - 2, 0)
              /\ \A i \in Group(pd_nooverlap, k) : \A r \in Trimmed :
                    (r.forecasted_time = k[1] /\ r.REGIONID = k[2])
                        => pd_nooverlap[i].actual_run_time <= r.actual_run_time

\* A group of three runs at three different times of which only the earliest
\* is left.
C1_Witness ==
    /\ Combined
    /\ \E k \in Keys :
          /\ Cardinality(Group(pd_df, k)) = 3
          /\ Cardinality({pd_df[i].actual_run_time : i \in Group(pd_df, k)}) = 3
          /\ \E i \in Group(pd_nooverlap, k) : \A j \in Group(pd_df, k) :
                pd_nooverlap[i].actual_run_time <= pd_df[j].actual_run_time
    /\ Len(pd_nooverlap) = 1

\* The (forecasted_time, region, ahead_time) a forecast row stands for.
Slot(f) == <<f.forecasted_time, f.REGIONID, f.forecasted_time - f.actual_run_time>>
OutSlot(e) == <<e.forecasted_time, e.REGIONID, e.ahead_time>>

\* The error values the forecast row f can show: its distance to each actual
\* price of its (forecasted_time, region), or NaN when there is none.
ErrorsOf(f) ==
    LET hits == {i \in Group(actual_price, <<f.forecasted_time, f.REGIONID>>) : TRUE}
    IN  IF hits = {} THEN {NaN} ELSE {actual_price[i].RRP - f.RRP : i \in hits}

\* C2: the returned table holds a row for every P5MIN row and every
\* PREDISPATCH row left by the trim, every returned row stems from one of
\* them, and the trim removed at most two rows per group.
C2_OutputIsUnionOfStreams ==
    Done =>
        LET kept == Range(pd_nooverlap) \cup Range(p5_df)
        IN  /\ \A f \in kept : \E j \in 1..Len(price_error) :
                  /\ OutSlot(price_error[j]) = Slot(f)
                  /\ price_error[j].error \in ErrorsOf(f)
            /\ \A j \in 1..Len(price_error) : \E f \in kept :
                  /\ OutSlot(price_error[j]) = Slot(f)
                  /\ price_error[j].error \in ErrorsOf(f)
            /\ \A k \in Keys :
                  Cardinality(Group(pd_df, k)) - Cardinality(Group(pd_nooverlap, k))
                      \in 0..2
            /\ \A r \in Range(pd_df) : Count(pd_nooverlap, r) <= Count(pd_df, r)

\* Rows of both streams reach the returned table while two rows were trimmed.
C2_Witness ==
    /\ Done
    /\ Len(pd_nooverlap) = 1
    /\ Len(pd_df) = 3
    /\ Len(p5_df) = 1
    /\ Len(price_error) = 2
    /\ Slot(pd_nooverlap[1]) # Slot(p5_df[1])

\* C3: the merged forecast table has as many rows as the trimmed PREDISPATCH
\* stream and the P5MIN stream together.
C3_MergeCompleteness ==
    Combined => Len(forecast_prices) = Len(pd_nooverlap) + Len(p5_df)

\* Both streams contribute, and a P5MIN row equals a row the trim left.
C3_Witness ==
    /\ Combined
    /\ Len(pd_nooverlap) >= 1
    /\ Len(p5_df) >= 1
    /\ Range(pd_nooverlap) \cap Range(p5_df) # {}

\* Number of rows of table t that stand for slot x.
InSlot(t, x) == Cardinality({i \in 1..Len(t) : Slot(t[i]) = x})
OutInSlot(t, x) == Cardinality({i \in 1..Len(t) : OutSlot(t[i]) = x})

\* No two rows of the actual-price table share (forecasted_time, region).
UniqueActuals ==
    \A i, j \in 1..Len(actual_price) :
        (/\ actual_price[i].forecasted_time = actual_price[j].forecasted_time
         /\ actual_price[i].REGIONID = actual_price[j].REGIONID) => i = j

\* The forecast row has an actual price for its (forecasted_time, region).
Matched(f) == Group(actual_price, <<f.forecasted_time, f.REGIONID>>) # {}

\* C4 as stated: the returned table has as many rows as the merged forecast
\* table, whatever the actual-price table holds.
C4_RowCountPreserved ==
    Done => Len(price_error) = Len(forecast_prices)

\* C4 amended: the returned table has as many rows as the merged forecast
\* table when the actual-price table has at most one row per
\* (forecasted_time, region), be it empty or partly missing.
C4_RowCountPreservedUniqueActuals ==
    (Done /\ UniqueActuals) => Len(price_error) = Len(forecast_prices)

\* Unique actual prices that cover one forecast row and miss another.
C4_Witness ==
    /\ Done
    /\ UniqueActuals
    /\ \E i, j \in 1..Len(forecast_prices) :
          Matched(forecast_prices[i]) /\ ~Matched(forecast_prices[j])
    /\ Len(price_error) = Len(forecast_prices)

\* C5: the join never loses rows: the returned table is at least as long as
\* the merged forecast table and holds, for every slot, at least as many rows
\* as the merged forecast table does.
C5_JoinLeftPreserving ==
    Done =>
        /\ Len(price_error) >= Len(forecast_prices)
        /\ \A i \in 1..Len(forecast_prices) :
              OutInSlot(price_error, Slot(forecast_prices[i]))
                  >= InSlot(forecast_prices, Slot(forecast_prices[i]))

\* A forecast row without an actual price next to one that has two.
C5_Witness ==
    /\ Done
    /\ \E i \in 1..Len(forecast_prices) : ~Matched(forecast_prices[i])
    /\ Len(price_error) > Len(forecast_prices)

\* C6: a forecast row without an actual price for its (forecasted_time,
\* region) is returned with its ahead_time and a null error: its slot holds as
\* many returned rows as forecast rows, all of them with a null error.
C6_UnmatchedKeptWithNullError ==
    Done =>
        \A i \in 1..Len(forecast_prices) :
            ~Matched(forecast_prices[i]) =>
                LET x == Slot(forecast_prices[i])
                    rows == {j \in 1..Len(price_error) : OutSlot(price_error[j]) = x}
                IN  /\ Cardinality(rows) = InSlot(forecast_prices, x)
                    /\ \A j \in rows : price_error[j].error = NaN

\* Actual prices exist, but none for one of the forecast rows.
C6_Witness ==
    /\ Done
    /\ Len(actual_price) >= 1
    /\ \E i, j \in 1..Len(forecast_prices) :
          /\ ~Matched(forecast_prices[i])
          /\ Matched(forecast_prices[j])
    /\ \E j \in 1..Len(price_error) :
          price_error[j].error = NaN /\ price_error[j].ahead_time > 0

\* The returned row e is what forecast row f (as fetched, with its nominal
\* run_time) gives under the lag of its forecast type.
Aligns(e, f, lag) ==
    /\ e.forecasted_time = f.forecasted_time
    /\ e.REGIONID = f.REGIONID
    /\ e.ahead_time = f.forecasted_time - (f.run_time - lag)
    /\ e.error \in ErrorsOf(f)

\* C7: every returned row is a fetched P5MIN row with ahead_time =
\* forecasted_time - (run_time - 5) or a fetched PREDISPATCH row with
\* ahead_time = forecasted_time - (run_time - 30), its error being the actual
\* price of the same (forecasted_time, region) minus the forecast price; and
\* every fetched P5MIN row is returned that way.
C7_AheadTimeAndError ==
    Done =>
        /\ \A j \in 1..Len(price_error) :
              \/ \E f \in Range(p5_fetched) : Aligns(price_error[j], f, 5)
              \/ \E f \in Range(pd_fetched) : Aligns(price_error[j], f, 30)
        /\ \A f \in Range(p5_fetched) :
              \E j \in 1..Len(price_error) : Aligns(price_error[j], f, 5)

\* Actual 65 at minute 90 and a P5MIN forecast of 60 with run_time 85 give
\* ahead_time 10 and error 5.
C7_Witness ==
    /\ Done
    /\ [run_time |-> 85, forecasted_time |-> 90, REGIONID |-> "NSW1", RRP |-> 60]
          \in Range(p5_fetched)
    /\ [forecasted_time |-> 90, REGIONID |-> "NSW1", RRP |-> 65] \in Range(actual_price)
    /\ [forecasted_time |-> 90, REGIONID |-> "NSW1", ahead_time |-> 10, error |-> 5]
          \in Range(price_error)

\* Every fetched forecast row targets an instant not earlier than the moment
\* the forecast became available.
WellFormed ==
    /\ \A f \in Range(p5_fetched) : f.forecasted_time >= f.run_time - 5
    /\ \A f \in Range(pd_fetched) : f.forecasted_time >= f.run_time - 30

\* C8: well-formed forecast rows give returned rows with ahead_time >= 0.
C8_AheadTimeNonNegative ==
    (Done /\ WellFormed) =>
        \A j \in 1..Len(price_error) : price_error[j].ahead_time >= 0

\* Well-formed rows of both streams are returned, one of them with a positive
\* ahead_time.
C8_Witness ==
    /\ Done
    /\ WellFormed
    /\ Len(pd_nooverlap) >= 1
    /\ Len(p5_df) >= 1
    /\ \E j \in 1..Len(price_error) : price_error[j].ahead_time > 0

\* No two fetched rows of one forecast type share (run_time, forecasted_time,
\* region).
UniqueIn(t) ==
    \A i, j \in 1..Len(t) :
        (/\ t[i].run_time = t[j].run_time
         /\ t[i].forecasted_time = t[j].forecasted_time
         /\ t[i].REGIONID = t[j].REGIONID) => i = j

UniqueForecasts == UniqueIn(p5_fetched) /\ UniqueIn(pd_fetched)

OneRowPerSlot ==
    \A i, j \in 1..Len(price_error) :
        OutSlot(price_error[i]) = OutSlot(price_error[j]) => i = j

\* No PREDISPATCH row left by the trim became available at the same moment as
\* a P5MIN row for the same (forecasted_time, region).
StreamsApart ==
    \A i \in 1..Len(pd_nooverlap) : \A j \in 1..Len(p5_df) :
        Slot(pd_nooverlap[i]) # Slot(p5_df[j])

\* C9 as stated, on well-formed input: with unique forecast rows and unique
\* actual prices no two returned rows share (forecasted_time, region,
\* ahead_time).
C9_OneRowPerSlot ==
    (Done /\ WellFormed /\ UniqueForecasts /\ UniqueActuals) => OneRowPerSlot

\* C9 amended: the same, provided no PREDISPATCH row left by the trim shares
\* its actual_run_time with a P5MIN row of the same (forecasted_time, region).
C9_OneRowPerSlotStreamsApart ==
    (Done /\ UniqueForecasts /\ UniqueActuals /\ StreamsApart) => OneRowPerSlot

\* Both streams have a row for the same (forecasted_time, region), the
\* PREDISPATCH one left by the trim, and the actual price is known.
C9_Witness ==
    /\ Done
    /\ UniqueForecasts
    /\ UniqueActuals
    /\ StreamsApart
    /\ \E i \in 1..Len(pd_nooverlap) : \E j \in 1..Len(p5_df) :
          /\ pd_nooverlap[i].forecasted_time = p5_df[j].forecasted_time
          /\ pd_nooverlap[i].REGIONID = p5_df[j].REGIONID
    /\ Len(price_error) = 2

(* ---------------------------------------------------------------------- *)
(* The yearly loop of historical-price-errors.py                           *)
(* ---------------------------------------------------------------------- *)

\* A datetime is [year, rest]: rest is the month/day/hour/minute/second part,
\* 0 for 01/01 00:00:00 and 1 for a later instant of the same year.  A string
\* in dt_str_format is the pair <<year, rest>>.
analysis_start == <<2012, 0>>
analysis_end == <<2022, 0>>

\* range(0, 10, 1)
NumYears == 10

\* datetime.strptime(s, dt_str_format)
strptime(s) == [year |-> s[1], rest |-> s[2]]

\* dt.strftime(dt_str_format)
strftime(dt) == <<dt.year, dt.rest>>

analysis_start_dt == strptime(analysis_start)

\* start = datetime(analysis_start_dt.year + i, month, day, hour, minute, second)
WindowStart(k) ==
    [year |-> analysis_start_dt.year + k, rest |-> analysis_start_dt.rest]

\* The end of every window taken to be the end of the whole analysis.
WindowEndAnalysisEnd(start) == strptime(analysis_end)

\* end = datetime(start.year + 1, month, day, hour, minute, second)
WindowEnd(start) ==
    [year |-> start.year + 1, rest |-> analysis_start_dt.rest]

\* fname = f"price-error-{start.year}.parquet": a file name is its year.
fname(start) == start.year

YearFiles == {fname(WindowStart(k)) : k \in 0..(NumYears - 1)}

DtLess(a, b) == a.year < b.year \/ (a.year = b.year /\ a.rest < b.rest)
DtLeq(a, b) == a = b \/ DtLess(a, b)

\* The target instants the providers hold: the year before the analysis, the
\* analysis years and the year after, each at 01/01 00:00:00 and later on.
Instants ==
    [year : (analysis_start_dt.year - 1)..(analysis_start_dt.year + NumYears),
     rest : {0, 1}]

\* The half-open window [start, end) of target instants.
InWindow(t, start, end) == DtLeq(start, t) /\ DtLess(t, end)

\* The target instants of the rows calculate_price_error(start, end) returns.
calculate_price_error(start_str, end_str) ==
    {t \in Instants : InWindow(t, strptime(start_str), strptime(end_str))}

\* The existence check that looks at no file at all.
FileExistsNever(fs, name) == name \in {}

\* Path(data_dir, fname).exists()
FileExists(fs, name) == name \in DOMAIN fs

\* What a file left by an earlier run may hold: nothing, or rows of any year.
OldContents == {{}, {WindowStart(0)}}

\* The directory when the script starts: absent, or holding any subset of the
\* yearly files, each with any old content.
InitialFiles(dir) ==
    IF dir THEN UNION {[S -> OldContents] : S \in SUBSET YearFiles}
    ELSE {<<>>}

InitYearly ==
    /\ pc = "nemosis_setup"
    /\ raised = "none"
    /\ data_dir \in BOOLEAN
    /\ files0 \in InitialFiles(data_dir)
    /\ files = files0
    /\ nemosis_cache = FALSE
    /\ loop_i = 0
    /\ invoked = {}
    /\ PipelineIdle
    /\ dispatchprice = <<>>
    /\ FetchIdle
    /\ ReportIdle

\* if not data_dir.exists(): nemosis_cache = Path("nemosis_cache/"); compile it
SetupNemosisCache ==
    /\ pc = "nemosis_setup"
    /\ nemosis_cache' = (IF ~data_dir THEN TRUE ELSE nemosis_cache)
    /\ pc' = "nemseer_setup"
    /\ UNCHANGED <<data_dir, files, files0, loop_i, invoked>>
    /\ UNCHANGED <<pipelineVars, raised, dispatchprice, fetchVars, reportVars>>

\* if not data_dir.exists(): download_raw_data(...) for both forecast types
DownloadRawData ==
    /\ pc = "nemseer_setup"
    /\ pc' = "mkdir"
    /\ UNCHANGED scriptVars
    /\ UNCHANGED <<pipelineVars, raised, dispatchprice, fetchVars, reportVars>>

\* if not data_dir.exists(): data_dir.mkdir(); the loop starts at i = 0
MakeDataDir ==
    /\ pc = "mkdir"
    /\ data_dir' = TRUE
    /\ loop_i' = 0
    /\ pc' = "loop"
    /\ UNCHANGED <<files, files0, nemosis_cache, invoked>>
    /\ UNCHANGED <<pipelineVars, raised, dispatchprice, fetchVars, reportVars>>

\* An iteration whose file exists: print "file exists, continuing".
LoopSkip ==
    /\ pc = "loop"
    /\ loop_i < NumYears
    /\ FileExists(files, fname(WindowStart(loop_i)))
    /\ loop_i' = loop_i + 1
    /\ UNCHANGED <<pc, data_dir, files, files0, nemosis_cache, invoked>>
    /\ UNCHANGED <<pipelineVars, raised, dispatchprice, fetchVars, reportVars>>

\* An iteration whose file is missing: calculate_price_error(start, end) and
\* to_parquet.  get_actual_price_data reads the global nemosis_cache; when the
\* name is not bound the call raises NameError and the script stops.
LoopCalculate ==
    /\ pc = "loop"
    /\ loop_i < NumYears
    /\ ~FileExists(files, fname(WindowStart(loop_i)))
    /\ LET start == WindowStart(loop_i)
           end == WindowEnd(start)
           name == fname(start)
       IN  /\ invoked' = invoked \cup {start.year}
           /\ IF nemosis_cache
              THEN /\ files' = [f \in DOMAIN files \cup {name} |->
                                   IF f = name
                                   THEN calculate_price_error(strftime(start),
                                                              strftime(end))
                                   ELSE files[f]]
                   /\ loop_i' = loop_i + 1
                   /\ UNCHANGED <<pc, raised>>
              ELSE /\ raised' = "NameError"
                   /\ pc' = "raised"
                   /\ UNCHANGED <<files, loop_i>>
    /\ UNCHANGED <<data_dir, files0, nemosis_cache>>
    /\ UNCHANGED <<pipelineVars, dispatchprice, fetchVars, reportVars>>

\* The loop has gone through range(0, 10, 1).
LoopEnd ==
    /\ pc = "loop"
    /\ loop_i = NumYears
    /\ pc' = "end"
    /\ UNCHANGED scriptVars
    /\ UNCHANGED <<pipelineVars, raised, dispatchprice, fetchVars, reportVars>>

NextYearly ==
    \/ SetupNemosisCache
    \/ DownloadRawData
    \/ MakeDataDir
    \/ LoopSkip
    \/ LoopCalculate
    \/ LoopEnd

SpecYearly == InitYearly /\ [][NextYearly]_vars

\* The script has stopped, at the end of the loop or on an exception.
Stopped == pc \in {"end", "raised"}

\* The years whose file was missing when the script started.
MissingYears == YearFiles \ DOMAIN files0

\* C11: a run that has stopped has stopped at the end of the loop, has called
\* calculate_price_error for exactly the years whose file was missing at the
\* start, and leaves the file of each of the ten years 2012..2021 in the
\* directory.
C11_EveryYearWritten ==
    Stopped =>
        /\ pc = "end"
        /\ invoked = MissingYears
        /\ DOMAIN files = YearFiles
        /\ YearFiles = 2012..2021

\* C12: a file that was in the directory when the script started is still
\* there with the rows it had, calculate_price_error has not been called for
\* its year, and the script never stops at such a year: an exception is only
\* ever raised at a year whose file was missing.
C12_ExistingYearSkipped ==
    /\ \A y \in DOMAIN files0 :
          /\ y \in DOMAIN files
          /\ files[y] = files0[y]
          /\ y \notin invoked
    /\ pc = "raised" => fname(WindowStart(loop_i)) \notin DOMAIN files0

\* The loop went past existing files, among them one with rows of another
\* year and a later one, and reached its end.
C12_Witness ==
    /\ pc = "end"
    /\ invoked = {}
    /\ files0[2012] = {}
    /\ files[2015] = {WindowStart(0)}
    /\ files[2021] = {}

\* The files written by this run.
Written == {y \in DOMAIN files : y \notin DOMAIN files0}

\* C20: window k starts on 1 January of 2012 + k and ends on 1 January of
\* 2013 + k; the end of a window is the start of the next; the first starts
\* at analysis_start and the last ends at analysis_end; the file a run writes
\* for a year holds the rows of the window starting in that year; and with
\* windows half-open no target instant is in two written files.
C20_WindowsPartition ==
    /\ \A k \in 0..(NumYears - 1) :
          /\ WindowStart(k) = [year |-> 2012 + k, rest |-> 0]
          /\ WindowEnd(WindowStart(k)) = [year |-> 2013 + k, rest |-> 0]
          /\ k < NumYears - 1 => WindowEnd(WindowStart(k)) = WindowStart(k + 1)
    /\ strftime(WindowStart(0)) = analysis_start
    /\ strftime(WindowEnd(WindowStart(NumYears - 1))) = analysis_end
    /\ \A y \in Written :
          files[y] = {t \in Instants :
                         /\ DtLeq([year |-> y, rest |-> 0], t)
                         /\ DtLess(t, [year |-> y + 1, rest |-> 0])}
    /\ \A y \in Written : \A z \in Written : y # z => files[y] \cap files[z] = {}
    /\ Written = YearFiles =>
          UNION {files[y] : y \in Written}
             = {t \in Instants : /\ DtLeq(strptime(analysis_start), t)
                                 /\ DtLess(t, strptime(analysis_end))}

\* All ten files written by one run, the boundary instant of 2013 in the file
\* of 2013 only.
C20_Witness ==
    /\ pc = "end"
    /\ Written = YearFiles
    /\ [year |-> 2013, rest |-> 0] \in files[2013]
    /\ [year |-> 2013, rest |-> 0] \notin files[2012]

(* ---------------------------------------------------------------------- *)
(* Boundary inputs, the trim and the row order of calculate_price_error    *)
(* ---------------------------------------------------------------------- *)

\* C13: whatever the tables are (an empty forecast stream, a PREDISPATCH
\* group of fewer than two rows, no forecast row matching an actual price), no
\* exception is raised; a PREDISPATCH group of fewer than two rows leaves no
\* row in the trimmed stream, so the returned rows of its (forecasted_time,
\* region) are those of the P5MIN rows alone, each once per matching actual
\* price or once when there is none.
C13_BoundaryInputs ==
    /\ raised = "none"
    /\ Combined =>
          \A k \in Keys :
             Cardinality(Group(pd_df, k)) < 2 => Group(pd_nooverlap, k) = {}
    /\ Done =>
          \A k \in Keys :
             Cardinality(Group(pd_df, k)) < 2 =>
                Cardinality(Group(price_error, k))
                   = Cardinality(Group(p5_df, k))
                        * Max(1, Cardinality(Group(actual_price, k)))

\* An empty P5MIN stream, one PREDISPATCH row (a group of one) and actual
\* prices that match no forecast row: the call returns an empty table.
C13_Witness ==
    /\ Done
    /\ p5_fetched = <<>>
    /\ Len(pd_fetched) = 1
    /\ Len(actual_price) >= 1
    /\ price_error = <<>>

NoActualRows == actual_price = <<>>
NoForecastRows == p5_fetched = <<>> /\ pd_fetched = <<>>

\* C14: a call for a window without actual rows, or without forecast rows,
\* does not return a table: it ends with a missing-data error.
C14_MissingDataSignalled ==
    (Done /\ (NoActualRows \/ NoForecastRows)) => raised = "MissingDataError"

\* C14 (amended): a call for a window without actual rows, or without
\* forecast rows, raises nothing and returns: an empty table when there is no
\* forecast row, and when there is no actual row one row per row of the merged
\* forecast table, each with a missing error.
C14_MissingDataSilent ==
    (Done /\ (NoActualRows \/ NoForecastRows)) =>
        /\ raised = "none"
        /\ NoForecastRows => price_error = <<>>
        /\ NoActualRows =>
              /\ Len(price_error) = Len(forecast_prices)
              /\ \A n \in 1..Len(price_error) : price_error[n].error = NaN

\* No actual row at all and two forecast rows returned with a missing error.
C14_Witness ==
    /\ Done
    /\ NoActualRows
    /\ Len(price_error) = 2
    /\ \A n \in 1..Len(price_error) : price_error[n].error = NaN

\* ahead_time of a forecast row before the merge.
AheadOf(r) == r.forecasted_time - r.actual_run_time

\* The ahead times of the P5MIN rows of group k.
P5Aheads(k) == {AheadOf(p5_df[n]) : n \in Group(p5_df, k)}

\* C16: a PREDISPATCH row is removed by the trim exactly when P5MIN holds a
\* row for its (forecasted_time, region) whose ahead_time is at least its own.
C16_TrimIsOverlap ==
    Combined =>
        \A r \in Range(pd_df) :
            r \in Trimmed
               <=> \E a \in P5Aheads(<<r.forecasted_time, r.REGIONID>>) :
                      AheadOf(r) <= a

\* Positions of the PREDISPATCH rows followed by at least two rows of their
\* (forecasted_time, region) group.
TwoFollow ==
    {n \in 1..Len(pd_df) :
        Cardinality({m \in Group(pd_df, <<pd_df[n].forecasted_time, pd_df[n].REGIONID>>) :
                        m > n}) >= 2}

\* C16 (amended): the trim looks at the PREDISPATCH stream alone: the rows
\* left are, in order, the rows followed by at least two rows of their
\* (forecasted_time, region) group, and the rows of a group are in ascending
\* actual_run_time; so the last two runs of a group are removed whether or not
\* P5MIN covers them, and an earlier run is kept even when P5MIN covers it.
C16_TrimIsPositional ==
    Combined =>
        /\ Len(pd_nooverlap) = Cardinality(TwoFollow)
        /\ \A n \in 1..Len(pd_nooverlap) :
              pd_nooverlap[n]
                 = pd_df[CHOOSE m \in TwoFollow :
                            Cardinality({j \in TwoFollow : j <= m}) = n]
        /\ \A k \in Keys : \A n \in Group(pd_df, k) : \A m \in Group(pd_df, k) :
              n < m => pd_df[n].actual_run_time <= pd_df[m].actual_run_time

\* A PREDISPATCH row was removed although P5MIN holds no row for its
\* (forecasted_time, region), and another was kept.
C16_Witness ==
    /\ Combined
    /\ \E r \in Trimmed : P5Aheads(<<r.forecasted_time, r.REGIONID>>) = {}
    /\ Len(pd_nooverlap) = 1

\* C17: when the trim is applied, the PREDISPATCH stream holds the rows
\* get_forecast_price_data returned, in the same order, with run_time replaced
\* by actual_run_time = run_time - 30 min, and the rows of every
\* (forecasted_time, region) group are in ascending actual_run_time; before
\* the lag subtraction they are in ascending run_time.
C17_GroupsAscendAtTrim ==
    /\ pc = "run_time" =>
          \A n \in 1..Len(pd_df) : \A m \in 1..Len(pd_df) :
             (n < m /\ pd_df[n].forecasted_time = pd_df[m].forecasted_time
                    /\ pd_df[n].REGIONID = pd_df[m].REGIONID)
                => pd_df[n].run_time <= pd_df[m].run_time
    /\ (pc = "combine" \/ Combined) =>
          /\ Len(pd_df) = Len(pd_fetched)
          /\ \A n \in 1..Len(pd_df) :
                /\ pd_df[n].forecasted_time = pd_fetched[n].forecasted_time
                /\ pd_df[n].REGIONID = pd_fetched[n].REGIONID
                /\ pd_df[n].RRP = pd_fetched[n].RRP
                /\ pd_df[n].actual_run_time = pd_fetched[n].run_time - PDLag
          /\ \A k \in Keys : \A n \in Group(pd_df, k) : \A m \in Group(pd_df, k) :
                n < m => pd_df[n].actual_run_time <= pd_df[m].actual_run_time

\* The trim is about to run on a group of three runs at three different times.
C17_Witness ==
    /\ pc = "combine"
    /\ \E k \in Keys :
          Cardinality({pd_df[n].actual_run_time : n \in Group(pd_df, k)}) = 3

\* Number of returned rows the forecast row at position n stands for.
Mult(n) ==
    Max(1, Cardinality(Group(actual_price,
               <<forecast_prices[n].forecasted_time, forecast_prices[n].REGIONID>>)))

\* Number of returned rows the first n forecast rows stand for.
RECURSIVE CumMult(_)
CumMult(n) == IF n = 0 THEN 0 ELSE CumMult(n - 1) + Mult(n)

\* C18: the returned rows are in ascending forecasted_time, and rows of one
\* forecasted_time are in non-increasing ahead_time (ascending
\* actual_run_time); the merged forecast table is in that order and the join
\* keeps it: the returned rows are the forecast rows in their order, each
\* standing once per matching actual price or once when there is none.
C18_OutputOrdered ==
    /\ Combined =>
          \A n \in 1..Len(forecast_prices) : \A m \in 1..Len(forecast_prices) :
             n < m =>
                /\ forecast_prices[n].forecasted_time <= forecast_prices[m].forecasted_time
                /\ forecast_prices[n].forecasted_time = forecast_prices[m].forecasted_time
                      => forecast_prices[n].actual_run_time
                            <= forecast_prices[m].actual_run_time
    /\ Done =>
          /\ Len(price_error) = CumMult(Len(forecast_prices))
          /\ \A n \in 1..Len(forecast_prices) :
                \A e \in (CumMult(n - 1) + 1)..CumMult(n) :
                   OutSlot(price_error[e]) = Slot(forecast_prices[n])
          /\ \A n \in 1..Len(price_error) : \A m \in 1..Len(price_error) :
                n < m =>
                   /\ price_error[n].forecasted_time <= price_error[m].forecasted_time
                   /\ price_error[n].forecasted_time = price_error[m].forecasted_time
                         => price_error[n].ahead_time >= price_error[m].ahead_time

\* A PREDISPATCH row left by the trim for the later target, returned after a
\* P5MIN row for the earlier target.
C18_Witness ==
    /\ Done
    /\ Len(pd_nooverlap) = 1
    /\ Len(price_error) = 2
    /\ price_error[1].forecasted_time < price_error[2].forecasted_time
    /\ price_error[1].ahead_time < price_error[2].ahead_time

(* ---------------------------------------------------------------------- *)
(* get_actual_price_data against the DISPATCHPRICE cache                   *)
(* ---------------------------------------------------------------------- *)

\* Rows of the cache and P5MIN rows of a call checked against the cache.
MaxCacheRows == 2
MaxWindowForecasts == 1

\* Settlement instants in the cache: the five-minute interval before the
\* window, its first and last instant, and the interval after it.
CacheTimes ==
    {window_start - NemosisLead, window_start, window_end, window_end + NemosisLead}

CacheRows ==
    [SETTLEMENTDATE : CacheTimes, REGIONID : Regions, RRP : ActualRRPs,
     INTERVENTION : {0, 1}]

CacheTables == UNION {TablesOfLen(CacheRows, n) : n \in 0..MaxCacheRows}

WindowForecastTables == UNION {TablesOfLen(P5RawRows, n) : n \in 0..MaxWindowForecasts}

\* A call of calculate_price_error that has combined its P5MIN rows (no
\* PREDISPATCH row) and is about to read the cache.
InitWindow ==
    /\ pc = "get_actual"
    /\ raised = "none"
    /\ dispatchprice \in CacheTables
    /\ \E df \in WindowForecastTables :
          /\ p5_fetched = get_forecast_price_data("P5MIN", df)
          /\ p5_df = WithActualRunTime(p5_fetched, P5Lag)
    /\ pd_fetched = <<>>
    /\ pd_df = <<>>
    /\ pd_nooverlap = RemovePdOverlap(pd_df)
    /\ forecast_prices = combine_pd_p5_forecasts(p5_df, pd_df)
    /\ actual_price = <<>>
    /\ price_error = <<>>
    /\ ScriptIdle
    /\ FetchIdle
    /\ ReportIdle

\* actual_price = get_actual_price_data(), read from the cache
GetActualPriceFromCache ==
    /\ pc = "get_actual"
    /\ actual_price' = get_actual_price_data(window_start, window_end, dispatchprice)
    /\ pc' = "process"
    /\ UNCHANGED <<p5_fetched, pd_fetched, p5_df, pd_df, pd_nooverlap,
                   forecast_prices, price_error>>
    /\ UNCHANGED <<raised, scriptVars, dispatchprice, fetchVars, reportVars>>

NextWindow ==
    \/ GetActualPriceFromCache
    \/ ProcessPriceError

SpecWindow == InitWindow /\ [][NextWindow]_vars

\* The cache holds the settled (non-intervention) price of instant t, region g.
Settled(t, g) ==
    \E n \in 1..Len(dispatchprice) :
        /\ dispatchprice[n].SETTLEMENTDATE = t
        /\ dispatchprice[n].REGIONID = g
        /\ dispatchprice[n].INTERVENTION = 0

\* C19: the actual prices fetched are the non-intervention rows of the cache
\* from five minutes before analysis_start (that instant left out) up to
\* analysis_end, so the row of the first instant of the window is among them;
\* a forecast row for that instant whose settled price the cache holds is
\* returned with an error, and one for a later instant of the window too.
C19_ActualWindow ==
    /\ pc \in {"process", "done"} =>
          /\ \A n \in 1..Len(actual_price) :
                /\ window_start - 5 < actual_price[n].forecasted_time
                /\ actual_price[n].forecasted_time <= window_end
                /\ Settled(actual_price[n].forecasted_time, actual_price[n].REGIONID)
          /\ \A t \in CacheTimes : \A g \in Regions :
                (Settled(t, g) /\ window_start <= t /\ t <= window_end)
                   => Group(actual_price, <<t, g>>) # {}
    /\ Done =>
          \A n \in 1..Len(price_error) :
             (/\ price_error[n].forecasted_time = window_start
              /\ Settled(window_start, price_error[n].REGIONID))
                => price_error[n].error # NaN

\* A forecast row for analysis_start returned with its error while the cache
\* also holds the row five minutes earlier, which is not fetched.
C19_Witness ==
    /\ Done
    /\ Len(price_error) = 1
    /\ price_error[1].forecasted_time = window_start
    /\ price_error[1].error # NaN
    /\ Len(dispatchprice) = 2
    /\ dispatchprice[1].SETTLEMENTDATE = window_start - 5
    /\ Len(actual_price) = 1

(* ---------------------------------------------------------------------- *)
(* The copies of get_forecast_price_data                                   *)
(* ---------------------------------------------------------------------- *)

\* Rows of the table compile_data hands to one call.
MaxCopyRows == 2

\* The scripts that define get_forecast_price_data without the column check.
Scripts2021 == {"discount-curve-fitting-2021", "price-error-rugplots-2021"}

ForecastTypes == {"P5MIN", "PREDISPATCH"}

\* Rows of a forecast table that has the INTERVENTION column.
FlaggedRows(ftype) ==
    IF ftype = "P5MIN"
    THEN [RUN_DATETIME : P5RunTimes, INTERVAL_DATETIME : ForecastedTimes,
          REGIONID : Regions, RRP : ForecastRRPs, INTERVENTION : {0, 1}]
    ELSE [PREDISPATCH_RUN_DATETIME : PDRunTimes, DATETIME : ForecastedTimes,
          REGIONID : Regions, RRP : ForecastRRPs, INTERVENTION : {0, 1}]

\* Rows of a forecast table that has no INTERVENTION column.
PlainRows(ftype) ==
    IF ftype = "P5MIN"
    THEN [RUN_DATETIME : P5RunTimes, INTERVAL_DATETIME : ForecastedTimes,
          REGIONID : Regions, RRP : ForecastRRPs]
    ELSE [PREDISPATCH_RUN_DATETIME : PDRunTimes, DATETIME : ForecastedTimes,
          REGIONID : Regions, RRP : ForecastRRPs]

\* df.columns of a compiled table with or without the INTERVENTION column.
Columns(ftype, flagged) ==
    {run_col[ftype], forecasted_col[ftype], "REGIONID", "RRP"}
       \cup (IF flagged THEN {"INTERVENTION"} ELSE {})

\* The frame of the given rows: its columns and its rows.  A frame of no rows
\* still has its columns.
Frame(ftype, flagged, rows) == [columns |-> Columns(ftype, flagged), rows |-> rows]

\* The frames compile_data may return: the column is there for every row or
\* for none.
CompiledTables(ftype) ==
    UNION {{Frame(ftype, TRUE, t) : t \in TablesOfLen(FlaggedRows(ftype), n)}
              \cup {Frame(ftype, FALSE, t) : t \in TablesOfLen(PlainRows(ftype), n)} :
              n \in 0..MaxCopyRows}

\* get_forecast_price_data of discount-curve-fitting-2021.py and of
\* price-error-rugplots-2021.py: df.query("INTERVENTION == 0") whether or not
\* the column exists; pandas raises UndefinedVariableError when it does not.
get_forecast_price_data_2021(ftype, df) ==
    IF "INTERVENTION" \notin df.columns
    THEN [raised |-> "UndefinedVariableError", df |-> <<>>]
    ELSE [raised |-> "none", df |-> get_forecast_price_data(ftype, df.rows)]

InitCopies ==
    /\ pc = "fetch"
    /\ raised = "none"
    /\ copy = <<"none", "none">>
    /\ compiled = <<>>
    /\ forecast_df = <<>>
    /\ PipelineIdle
    /\ ScriptIdle
    /\ dispatchprice = <<>>
    /\ ReportIdle

\* get_forecast_price_data(ftype) of historical-price-errors.py
FetchHistorical ==
    /\ pc = "fetch"
    /\ \E ftype \in ForecastTypes : \E df \in CompiledTables(ftype) :
          /\ copy' = <<"historical-price-errors", ftype>>
          /\ compiled' = df
          /\ forecast_df' = get_forecast_price_data(ftype, df.rows)
    /\ pc' = "fetched"
    /\ UNCHANGED <<pipelineVars, raised, scriptVars, dispatchprice, reportVars>>

\* get_forecast_price_data(ftype) of one of the 2021 scripts
Fetch2021 ==
    /\ pc = "fetch"
    /\ \E script \in Scripts2021 : \E ftype \in ForecastTypes :
       \E df \in CompiledTables(ftype) :
          LET out == get_forecast_price_data_2021(ftype, df)
          IN  /\ copy' = <<script, ftype>>
              /\ compiled' = df
              /\ forecast_df' = out.df
              /\ raised' = out.raised
              /\ pc' = IF out.raised = "none" THEN "fetched" ELSE "raised"
    /\ UNCHANGED <<pipelineVars, scriptVars, dispatchprice, reportVars>>

NextCopies ==
    \/ FetchHistorical
    \/ Fetch2021

SpecCopies == InitCopies /\ [][NextCopies]_vars

\* Row n of the compiled table under the canonical column names.
Canonical(n) ==
    [run_time |-> compiled.rows[n][run_col[copy[2]]],
     forecasted_time |-> compiled.rows[n][forecasted_col[copy[2]]],
     REGIONID |-> compiled.rows[n].REGIONID,
     RRP |-> compiled.rows[n].RRP]

\* Rows of the compiled table that are not flagged as intervention.
Unflagged ==
    {n \in 1..Len(compiled.rows) :
        "INTERVENTION" \in compiled.columns => compiled.rows[n].INTERVENTION = 0}

\* C15: whichever script's get_forecast_price_data ran, it raised nothing and
\* returned the rows of the compiled table whose INTERVENTION is 0 when the
\* table has that column, and all its rows when it has not.
C15_InterventionFilterEveryCopy ==
    pc \in {"fetched", "raised"} =>
        /\ raised = "none"
        /\ Len(forecast_df) = Cardinality(Unflagged)
        /\ \A n \in Unflagged :
              Count(forecast_df, Canonical(n))
                 = Cardinality({m \in Unflagged : Canonical(m) = Canonical(n)})

(* ---------------------------------------------------------------------- *)
(* Region independence of calculate_price_error                            *)
(* ---------------------------------------------------------------------- *)

\* The rows of table t that belong to region g, in table order.
OfRegion(t, g) == SelectSeq(t, LAMBDA r : r.REGIONID = g)

\* C26: the returned rows of a region are what the trim, the combination and
\* the join return when given that region's P5MIN, PREDISPATCH and actual rows
\* alone; so two calls whose inputs agree on a region return the same rows for
\* it, whatever the rows of the other regions are.
C26_RegionIndependence ==
    /\ Combined =>
          \A g \in Regions :
             OfRegion(forecast_prices, g)
                = combine_pd_p5_forecasts(OfRegion(p5_df, g), OfRegion(pd_df, g))
    /\ Done =>
          \A g \in Regions :
             OfRegion(price_error, g)
                = process_price_error(
                     combine_pd_p5_forecasts(OfRegion(p5_df, g), OfRegion(pd_df, g)),
                     OfRegion(actual_price, g))

\* Two PREDISPATCH rows of one region and one of another for the same target
\* instant and a P5MIN row of the first region: the trim removes all three
\* PREDISPATCH rows and the first region's only returned row is that of its
\* P5MIN row.
C26_Witness ==
    /\ Done
    /\ \E g \in Regions : \E o \in Regions \ {g} : \E t \in ForecastedTimes :
          /\ Cardinality(Group(pd_df, <<t, g>>)) = 2
          /\ Cardinality(Group(pd_df, <<t, o>>)) = 1
          /\ Len(OfRegion(p5_df, g)) = 1
          /\ Len(OfRegion(price_error, g)) = 1
          /\ Len(OfRegion(price_error, o)) = 0

(* ---------------------------------------------------------------------- *)
(* Error counts and curve fitting of discount-curve-fitting-2021.py        *)
(* ---------------------------------------------------------------------- *)

\* Rows of the price_error table the analyses are run on.
MaxErrorRows == 2

\* The selected ahead times, in minutes: 5 min, 30 min, 1 h, 4 h, 8 h, 12 h,
\* 18 h, 1 day, 1 day 8 h.
aheads == <<5, 30, 60, 240, 480, 720, 1080, 1440, 1920>>

\* for thresh in (300.0, 1000.0, 10000.0)
thresholds == <<300, 1000, 10000>>

\* axes = [ax1, ax2, ax3, ax4, ax5]
NumAxes == 5

\* Ahead times and errors of the rows: a selected ahead time within day-ahead,
\* one that is not selected and the one beyond day-ahead; a missing error, one
\* below every threshold and one that reaches all three.
AnalysisAheads == {30, 45, 1920}
AnalysisErrors == {NaN, 0, 0 - 10000}

ErrorRows ==
    [forecasted_time : ForecastedTimes, REGIONID : Regions,
     ahead_time : AnalysisAheads, error : AnalysisErrors]

\* Row b may follow row a in a table calculate_price_error returns: ascending
\* forecasted_time, and within it non-increasing ahead_time.
MayFollow(a, b) ==
    \/ a.forecasted_time < b.forecasted_time
    \/ a.forecasted_time = b.forecasted_time /\ a.ahead_time >= b.ahead_time

\* The tables of exactly n rows in the order calculate_price_error returns.
RECURSIVE ErrorTablesOfLen(_)
ErrorTablesOfLen(n) ==
    IF n = 0 THEN {<<>>}
    ELSE UNION {{Append(t, r) : r \in {x \in ErrorRows :
                                         Len(t) = 0 \/ MayFollow(t[Len(t)], x)}} :
                   t \in ErrorTablesOfLen(n - 1)}

ErrorTables == UNION {ErrorTablesOfLen(n) : n \in 0..MaxErrorRows}

\* Series.unique(): the distinct values of s in order of first appearance.
Unique(s) ==
    LET first == {n \in 1..Len(s) : \A m \in 1..(n - 1) : s[m] # s[n]}
    IN  [k \in 1..Cardinality(first) |->
            s[CHOOSE n \in first : Cardinality({m \in first : m <= n}) = k]]

\* price_error.REGIONID.unique()
RegionsOf(pe) == Unique([n \in 1..Len(pe) |-> pe[n].REGIONID])

\* ahead_time.isin(aheads)
InAheads(m) == \E k \in 1..Len(aheads) : aheads[k] = m

\* (days * 24 + seconds / 3600).round(1): hours to one decimal, kept as tenths
\* of an hour (5 minutes become 0.1 h).
HoursLabel(m) == (m + 3) \div 6

Abs(x) == IF x < 0 THEN 0 - x ELSE x

\* box_df.error.abs() >= threshold; a missing error compares False.
Exceeds(e, threshold) == e # NaN /\ Abs(e) >= threshold

\* The total taken over the error column: rows with a missing error are left
\* out of count().
TotalCountNonNull(box, rows) == Cardinality({n \in rows : box[n].error # NaN})

\* groupby("ahead_time")["threshold"].count(): the boolean column has no
\* missing value, every row counts.
TotalCount(box, rows) == Cardinality(rows)

\* The counts table of one region: one row per ahead-time label, in order of
\* first appearance (groupby sort=False); the label is the hours and the
\* number of samples.
CountsTable(pe, region, threshold) ==
    LET box == SelectSeq(pe, LAMBDA r : r.REGIONID = region /\ InAheads(r.ahead_time))
        hours == Unique([n \in 1..Len(box) |-> HoursLabel(box[n].ahead_time)])
        rowsOf(h) == {n \in 1..Len(box) : HoursLabel(box[n].ahead_time) = h}
    IN  [k \in 1..Len(hours) |->
            [ahead_time |-> <<hours[k], Cardinality(rowsOf(hours[k]))>>,
             threshold |-> Cardinality({n \in rowsOf(hours[k]) :
                                           Exceeds(box[n].error, threshold)}),
             total |-> TotalCount(box, rowsOf(hours[k]))]]

\* f"{region}_percent_above_{threshold}_2021.png"
FigureName(region, threshold) == <<region, "percent_above", threshold>>

\* count_errors_above_threshold_by_region: the figure names it saves.  The
\* statement "return None" is inside the loop over the regions, after savefig:
\* the call ends with the first region.
count_errors_above_threshold_by_region(pe, threshold) ==
    LET regions == RegionsOf(pe)
    IN  IF regions = <<>> THEN {}
        ELSE {FigureName(regions[1], threshold)}

\* count_errors_above_threshold: results[threshold] = {}, then one counts table
\* (with frac = threshold / total, kept as the pair) per region that has an
\* axis; the dictionary is returned.
count_errors_above_threshold(pe, threshold, results) ==
    LET regions == RegionsOf(pe)
        plotted == {regions[k] : k \in 1..(IF Len(regions) < NumAxes
                                          THEN Len(regions) ELSE NumAxes)}
        entry == [g \in plotted |->
                    LET counts == CountsTable(pe, g, threshold)
                    IN  [k \in 1..Len(counts) |->
                            [ahead_time |-> counts[k].ahead_time,
                             threshold |-> counts[k].threshold,
                             total |-> counts[k].total,
                             frac |-> <<counts[k].threshold, counts[k].total>>]]]
    IN  [t \in DOMAIN results \cup {threshold} |->
            IF t = threshold THEN entry ELSE results[t]]

\* df = counts[threshold]["NSW1"]; df = df.iloc[1:, :]
FitRows(counts, t) ==
    LET df == counts[t]["NSW1"]
    IN  IF df = <<>> THEN <<>> ELSE Tail(df)

\* curve_fit raises when it is given no point, or when every frac is 0:
\* 1 - df.frac / df.frac.max() is then not finite.
FitFails(df) == df = <<>> \/ \A k \in 1..Len(df) : df[k].threshold = 0

\* fig.savefig(Path(curve_fit_dir, f"curve_fits_{threshold}.png"))
CurveFitName(threshold) == <<"curve_fits", threshold>>

\* The thresholds, in the order of counts.keys(), at which the loop of
\* fit_and_plot_discount_functions_across_thresholds raises: no NSW1 entry, or
\* a fit that fails.
FailingAt(counts) ==
    {k \in 1..Len(thresholds) :
        /\ thresholds[k] \in DOMAIN counts
        /\ \/ "NSW1" \notin DOMAIN counts[thresholds[k]]
           \/ FitFails(FitRows(counts, thresholds[k]))}

\* fit_and_plot_discount_functions_across_thresholds: for every threshold the
\* NSW1 counts without their first row, the times read back from the labels,
\* the two fits and the saved figure.  A dictionary without NSW1 raises
\* KeyError, a failing fit ValueError; the figures of the thresholds before
\* the one that raises are already saved.
fit_and_plot_discount_functions_across_thresholds(counts) ==
    IF FailingAt(counts) = {}
    THEN [raised |-> "none",
          times |-> [t \in DOMAIN counts |->
                       [k \in 1..Len(FitRows(counts, t)) |->
                           FitRows(counts, t)[k].ahead_time[1]]],
          saved |-> {CurveFitName(t) : t \in DOMAIN counts}]
    ELSE LET k == CHOOSE x \in FailingAt(counts) : \A y \in FailingAt(counts) : x <= y
         IN  [raised |-> IF "NSW1" \notin DOMAIN counts[thresholds[k]]
                         THEN "KeyError" ELSE "ValueError",
              times |-> <<>>,
              saved |-> {CurveFitName(thresholds[j]) : j \in 1..(k - 1)}]

\* The script after price_error = calculate_price_error(...).
InitAnalysis ==
    /\ pc = "by_region"
    /\ raised = "none"
    /\ price_error \in ErrorTables
    /\ p5_fetched = <<>>
    /\ pd_fetched = <<>>
    /\ p5_df = <<>>
    /\ pd_df = <<>>
    /\ pd_nooverlap = <<>>
    /\ forecast_prices = <<>>
    /\ actual_price = <<>>
    /\ dispatchprice = <<>>
    /\ ScriptIdle
    /\ FetchIdle
    /\ ReportIdle

\* for thresh in (300.0, 1000.0, 10000.0):
\*     count_errors_above_threshold_by_region(price_error, thresh)
CountByRegion ==
    /\ pc = "by_region"
    /\ saved' = saved \cup
          count_errors_above_threshold_by_region(price_error, thresholds[thresh_i + 1])
    /\ IF thresh_i + 1 < Len(thresholds)
       THEN thresh_i' = thresh_i + 1 /\ pc' = pc
       ELSE thresh_i' = 0 /\ pc' = "all_regions"
    /\ UNCHANGED <<thresh_frac, fit_times, plotVars, returned>>
    /\ UNCHANGED <<pipelineVars, raised, scriptVars, dispatchprice, fetchVars>>

\* thresh_frac = {}; for thresh in (300.0, 1000.0, 10000.0):
\*     counts = count_errors_above_threshold(price_error, thresh, thresh_frac)
CountAllRegions ==
    /\ pc = "all_regions"
    /\ thresh_frac' =
          count_errors_above_threshold(price_error, thresholds[thresh_i + 1], thresh_frac)
    /\ saved' = saved \cup {FigureName("all_regions", thresholds[thresh_i + 1])}
    /\ IF thresh_i + 1 < Len(thresholds)
       THEN thresh_i' = thresh_i + 1 /\ pc' = pc
       ELSE thresh_i' = 0 /\ pc' = "fit"
    /\ UNCHANGED <<fit_times, plotVars, returned>>
    /\ UNCHANGED <<pipelineVars, raised, scriptVars, dispatchprice, fetchVars>>

\* fit_and_plot_discount_functions_across_thresholds(counts, curve_fit_dir)
FitDiscountFunctions ==
    /\ pc = "fit"
    /\ LET out == fit_and_plot_discount_functions_across_thresholds(thresh_frac)
       IN  /\ fit_times' = out.times
           /\ saved' = saved \cup out.saved
           /\ raised' = out.raised
           /\ pc' = IF out.raised = "none" THEN "fitted" ELSE "raised"
    /\ UNCHANGED <<thresh_i, thresh_frac, plotVars, returned>>
    /\ UNCHANGED <<pipelineVars, scriptVars, dispatchprice, fetchVars>>

NextAnalysis ==
    \/ CountByRegion
    \/ CountAllRegions
    \/ FitDiscountFunctions

SpecAnalysis == InitAnalysis /\ [][NextAnalysis]_vars

\* The regions present in price_error.
RegionsPresent == {price_error[n].REGIONID : n \in 1..Len(price_error)}

\* C21: once the loop over the thresholds has called
\* count_errors_above_threshold_by_region for each of them, a figure
\* <region>_percent_above_<threshold>_2021.png has been saved for every region
\* present in price_error and every threshold.
C21_FigurePerRegion ==
    pc \in {"all_regions", "fit", "fitted", "raised"} =>
        \A g \in RegionsPresent : \A k \in 1..Len(thresholds) :
            FigureName(g, thresholds[k]) \in saved

\* The selected ahead times of the NSW1 rows, in tenths of an hour.
NSWHours ==
    {HoursLabel(price_error[n].ahead_time) :
        n \in {m \in 1..Len(price_error) :
                  /\ price_error[m].REGIONID = "NSW1"
                  /\ InAheads(price_error[m].ahead_time)}}

\* C22: once the curves are fitted, for every threshold every point fitted
\* is at most 24 hours ahead, and the fitted points are all the selected
\* ahead times of NSW1 except the one 32 hours ahead.
C22_FitWithinDayAhead ==
    pc = "fitted" =>
        \A t \in DOMAIN fit_times :
            /\ \A k \in 1..Len(fit_times[t]) : fit_times[t][k] <= 240
            /\ {fit_times[t][k] : k \in 1..Len(fit_times[t])} = NSWHours \ {320}

\* Rows of region g with ahead time a.
RowsAt(g, a) ==
    {n \in 1..Len(price_error) :
        price_error[n].REGIONID = g /\ price_error[n].ahead_time = a}

\* C23: every counts table stored in the results dictionary holds, for every
\* selected ahead time of its region, exactly one row, whose threshold count
\* is the number of rows with a non-missing error of absolute value at least
\* the threshold and whose total is the number of rows of that ahead time,
\* rows with a missing error included; so 0 <= threshold count <= total; no
\* exception is raised by the counting; and after the loop the dictionary has
\* the three thresholds, each with every region present.
C23_ThresholdCounts ==
    /\ pc \in {"by_region", "all_regions", "fit"} => raised = "none"
    /\ \A t \in DOMAIN thresh_frac : \A g \in DOMAIN thresh_frac[t] :
          LET counts == thresh_frac[t][g]
          IN  /\ \A k \in 1..Len(counts) :
                    /\ 0 <= counts[k].threshold
                    /\ counts[k].threshold <= counts[k].total
              /\ \A a \in AnalysisAheads :
                    LET hit == {k \in 1..Len(counts) :
                                   counts[k].ahead_time[1] = HoursLabel(a)}
                    IN  IF InAheads(a) /\ RowsAt(g, a) # {}
                        THEN /\ Cardinality(hit) = 1
                             /\ \A k \in hit :
                                   /\ counts[k].total = Cardinality(RowsAt(g, a))
                                   /\ counts[k].threshold =
                                         Cardinality({n \in RowsAt(g, a) :
                                            /\ price_error[n].error # NaN
                                            /\ \/ price_error[n].error >= t
                                               \/ price_error[n].error <= 0 - t})
                        ELSE InAheads(a) => hit = {}
    /\ pc \in {"fit", "fitted", "raised"} =>
          /\ DOMAIN thresh_frac = {300, 1000, 10000}
          /\ \A t \in DOMAIN thresh_frac : DOMAIN thresh_frac[t] = RegionsPresent

\* All three thresholds counted; NSW1 has, 30 minutes ahead, a row with a
\* missing error and one of -10000: total 2, and 1 row counted at every
\* threshold.
C23_Witness ==
    /\ pc \in {"fitted", "raised"}
    /\ Cardinality(RowsAt("NSW1", 30)) = 2
    /\ \E n \in RowsAt("NSW1", 30) : price_error[n].error = NaN
    /\ thresh_frac[300]["NSW1"][1].total = 2
    /\ thresh_frac[300]["NSW1"][1].threshold = 1
    /\ thresh_frac[10000]["NSW1"][1].threshold = 1

(* ---------------------------------------------------------------------- *)
(* Monthly counts of large errors: plot_counts_within_horizon              *)
(* ---------------------------------------------------------------------- *)

\* Length of dates = pd.date_range("2011/12/31", "2021/11/30", freq="1M"), the
\* months of the plot (120 in the script), and the rows of the error table.
NumMonths == 2
MaxPlotRows == 2

\* ((upper thresholds of the three bins), lower threshold of the first bin)
negative_thresholds == <<<<0 - 10000, 0 - 1000, 0 - 300>>, 0 - 15500>>
positive_thresholds == <<<<1000, 10000, 15500>>, 300>>

\* for thresholds, lower_threshold in (negative_thresholds, positive_thresholds)
ThresholdGroups == <<negative_thresholds, positive_thresholds>>

\* for horizon, ax in zip((24 * 60, 1 * 60), axes.flatten())
Horizons == <<24 * 60, 1 * 60>>

\* Ahead times and errors of the rows: an ahead time within both horizons and
\* the one-hour horizon itself; a missing error and errors on the bin edges.
PlotAheads == {30, 60}
PlotErrors == {NaN, 0 - 15500, 0 - 10000, 0 - 300, 300, 1000}

\* A row of the error table; month is the calendar month of forecasted_time,
\* counted from January 2012.
PlotRows == [month : 1..NumMonths, ahead_time : PlotAheads, error : PlotErrors]

\* The tables of exactly n rows, in ascending forecasted_time.
RECURSIVE PlotTablesOfLen(_)
PlotTablesOfLen(n) ==
    IF n = 0 THEN {<<>>}
    ELSE UNION {{Append(t, r) : r \in {x \in PlotRows :
                                         Len(t) = 0 \/ t[Len(t)].month <= x.month}} :
                   t \in PlotTablesOfLen(n - 1)}

PlotTables == UNION {PlotTablesOfLen(n) : n \in 0..MaxPlotRows}

NumBins == Len(ThresholdGroups) * Len(negative_thresholds[1])

\* The group of thresholds bin k belongs to and its place in the group.
GroupOf(k) == ((k - 1) \div Len(negative_thresholds[1])) + 1
PlaceOf(k) == ((k - 1) % Len(negative_thresholds[1])) + 1

\* upper_threshold of bin k
UpperOf(k) == ThresholdGroups[GroupOf(k)][1][PlaceOf(k)]

\* lower_threshold of bin k: the group's lower threshold for its first bin,
\* afterwards the previous upper threshold (lower_threshold = upper_threshold).
LowerOf(k) ==
    IF PlaceOf(k) = 1 THEN ThresholdGroups[GroupOf(k)][2]
    ELSE ThresholdGroups[GroupOf(k)][1][PlaceOf(k) - 1]

\* pl.col("ahead_time") < pl.duration(minutes=horizon_minutes)
InHorizon(r, horizon) == r.ahead_time < horizon

\* A bin that includes its lower threshold.
InBinClosed(e, lower, upper) == e # NaN /\ lower <= e /\ upper >= e

\* (lower_threshold < error) & (upper_threshold >= error); both comparisons are
\* False for a missing error.
InBin(e, lower, upper) == e # NaN /\ lower < e /\ upper >= e

\* threshold_df: the rows (positions in pe) within the horizon and the bin.
threshold_df(pe, horizon, lower, upper) ==
    {n \in 1..Len(pe) : InHorizon(pe[n], horizon) /\ InBin(pe[n].error, lower, upper)}

\* threshold_df.resample("1M", label="left")["error"].count(): one count per
\* month from the first to the last month that has a row, 0 for the months in
\* between; no entry at all outside that range.
ThresholdCount(pe, rows) ==
    LET ms == {pe[n].month : n \in rows}
    IN  [m \in {x \in 1..NumMonths : /\ \E a \in ms : a <= x
                                      /\ \E b \in ms : x <= b} |->
            Cardinality({n \in rows : pe[n].month = m})]

\* threshold_count.combine_first(pd.Series(dummy, dates)): the months without
\* an entry take the value of the array.
CombineFirst(threshold_count, d) ==
    [m \in 1..NumMonths |->
        IF m \in DOMAIN threshold_count THEN threshold_count[m] ELSE d[m]]

\* The call plot_counts_within_horizon(ax, data_dir, horizon) after
\* dummy = np.zeros_like(dates, float) and the loading of the table.
InitPlot ==
    /\ pc = "plot"
    /\ raised = "none"
    /\ price_error \in PlotTables
    /\ \E h \in 1..Len(Horizons) : horizon_minutes = Horizons[h]
    /\ dummy = [m \in 1..NumMonths |-> 0]
    /\ bottom = <<>>
    /\ bars = <<>>
    /\ bin_i = 0
    /\ thresh_i = 0
    /\ saved = {}
    /\ thresh_frac = <<>>
    /\ fit_times = <<>>
    /\ returned = <<>>
    /\ p5_fetched = <<>>
    /\ pd_fetched = <<>>
    /\ p5_df = <<>>
    /\ pd_df = <<>>
    /\ pd_nooverlap = <<>>
    /\ forecast_prices = <<>>
    /\ actual_price = <<>>
    /\ dispatchprice = <<>>
    /\ ScriptIdle
    /\ FetchIdle

\* One pass of the inner loop.  bottom = dummy (at the start of a group) binds
\* bottom to the array dummy itself, and bottom += threshold_count.values adds
\* in place: the array that fills the absent months of the next bins is the
\* accumulated baseline.
PlotBin ==
    /\ pc = "plot"
    /\ bin_i < NumBins
    /\ LET k == bin_i + 1
           rows == threshold_df(price_error, horizon_minutes, LowerOf(k), UpperOf(k))
           threshold_count == CombineFirst(ThresholdCount(price_error, rows), dummy)
           base == IF PlaceOf(k) = 1 THEN dummy ELSE bottom
       IN  /\ bars' = Append(bars, [rows |-> rows,
                                    count |-> ThresholdCount(price_error, rows),
                                    height |-> threshold_count,
                                    bottom |-> base])
           /\ bottom' = [m \in 1..NumMonths |-> base[m] + threshold_count[m]]
           /\ dummy' = bottom'
           /\ bin_i' = k
    /\ UNCHANGED <<pc, horizon_minutes, analysisVars, returned>>
    /\ UNCHANGED <<pipelineVars, raised, scriptVars, dispatchprice, fetchVars>>

\* return None
PlotReturn ==
    /\ pc = "plot"
    /\ bin_i = NumBins
    /\ pc' = "plotted"
    /\ UNCHANGED <<pipelineVars, raised, scriptVars, dispatchprice, fetchVars, reportVars>>

NextPlot ==
    \/ PlotBin
    \/ PlotReturn

SpecPlot == InitPlot /\ [][NextPlot]_vars

\* The six bins as (lower, upper].
SixBins ==
    <<<<0 - 15500, 0 - 10000>>, <<0 - 10000, 0 - 1000>>, <<0 - 1000, 0 - 300>>,
      <<300, 1000>>, <<1000, 10000>>, <<10000, 15500>>>>

\* The rows within the horizon of month m whose error is in bin k.
RowsInBin(k, m) ==
    {n \in 1..Len(price_error) :
        /\ price_error[n].month = m
        /\ price_error[n].ahead_time < horizon_minutes
        /\ price_error[n].error # NaN
        /\ SixBins[k][1] < price_error[n].error
        /\ price_error[n].error <= SixBins[k][2]}

\* C24: the rows counted for bin k are exactly those with ahead_time strictly
\* below the horizon and lower < error <= upper for the k-th of the six bins,
\* and the monthly count of the bin counts each of them once; no row is
\* counted in two bins, and a row with a missing error or an error in
\* (-300, 300] is counted in none.
C24_BinsDisjoint ==
    /\ Len(bars) = bin_i
    /\ \A k \in 1..Len(bars) :
          /\ bars[k].rows = UNION {RowsInBin(k, m) : m \in 1..NumMonths}
          /\ \A m \in DOMAIN bars[k].count :
                bars[k].count[m] = Cardinality(RowsInBin(k, m))
          /\ \A m \in 1..NumMonths :
                RowsInBin(k, m) # {} => m \in DOMAIN bars[k].count
          /\ \A j \in 1..Len(bars) : j # k => bars[j].rows \cap bars[k].rows = {}
          /\ \A n \in bars[k].rows :
                /\ price_error[n].error # NaN
                /\ ~(0 - 300 < price_error[n].error /\ price_error[n].error <= 300)

\* The one-hour plot is complete; a row exactly one hour ahead with an error
\* of -10000 is in no bin, a row 30 minutes ahead with an error of 1000 is in
\* the fourth bin and a row with an error of 300 is in none.
C24_Witness ==
    /\ pc = "plotted"
    /\ horizon_minutes = 60
    /\ \E n \in 1..Len(price_error) :
          /\ price_error[n].ahead_time = 60
          /\ price_error[n].error = 0 - 10000
          /\ \A k \in 1..NumBins : n \notin bars[k].rows
    /\ \E n \in 1..Len(price_error) :
          /\ price_error[n].error = 1000
          /\ n \in bars[4].rows

\* C25: the height of every bar is the number of rows within the horizon of
\* that month and that bin, 0 where there is none; the array that fills the
\* absent months holds only zeros; and the baseline of the first positive bin
\* is zero.
C25_BarHeights ==
    /\ \A k \in 1..Len(bars) : \A m \in 1..NumMonths :
          bars[k].height[m] = Cardinality(RowsInBin(k, m))
    /\ \A m \in DOMAIN dummy : dummy[m] = 0
    /\ Len(bars) >= 4 => \A m \in 1..NumMonths : bars[4].bottom[m] = 0

(* ---------------------------------------------------------------------- *)
(* The three copies of calculate_price_error                               *)
(* ---------------------------------------------------------------------- *)

\* Rows of the three provider tables of one comparison, taken together.
MaxEquivRows == 3

Scripts ==
    {"historical-price-errors", "discount-curve-fitting-2021",
     "price-error-rugplots-2021"}

\* The statements of calculate_price_error after the two forecast tables are
\* fetched, the same in the three scripts: actual run times, combination,
\* actual prices, join.
AlignForecasts(p5f, pdf, cached) ==
    process_price_error(
        combine_pd_p5_forecasts(WithActualRunTime(p5f, P5Lag),
                                WithActualRunTime(pdf, PDLag)),
        get_actual_price_data(window_start, window_end, cached))

\* calculate_price_error of historical-price-errors.py.  Its
\* get_actual_price_data reads the global nemosis_cache, which the script binds
\* only when the directory price-error did not exist: NameError otherwise.
calculate_price_error_historical(p5c, pdc, cached, cache_bound) ==
    IF ~cache_bound
    THEN [raised |-> "NameError", df |-> <<>>]
    ELSE [raised |-> "none",
          df |-> AlignForecasts(get_forecast_price_data("P5MIN", p5c.rows),
                                get_forecast_price_data("PREDISPATCH", pdc.rows),
                                cached)]

\* calculate_price_error of discount-curve-fitting-2021.py and of
\* price-error-rugplots-2021.py on the frames p5c and pdc; both scripts bind
\* nemosis_cache unconditionally.  A frame without the INTERVENTION column
\* raises at its fetch, the P5MIN one first.
calculate_price_error_2021(p5c, pdc, cached) ==
    LET p5out == get_forecast_price_data_2021("P5MIN", p5c)
        pdout == get_forecast_price_data_2021("PREDISPATCH", pdc)
    IN  IF p5out.raised # "none" THEN [raised |-> p5out.raised, df |-> <<>>]
        ELSE IF pdout.raised # "none" THEN [raised |-> pdout.raised, df |-> <<>>]
        ELSE [raised |-> "none", df |-> AlignForecasts(p5out.df, pdout.df, cached)]

\* The three scripts are about to call calculate_price_error on the same
\* provider tables; each forecast frame has the INTERVENTION column or has it
\* not.  In historical-price-errors.py the name nemosis_cache is bound exactly
\* when the directory price-error did not exist at its start.
InitEquiv ==
    /\ pc = "call_historical"
    /\ raised = "none"
    /\ \E a \in 0..MaxEquivRows : \E b \in 0..(MaxEquivRows - a) :
       \E c \in 0..(MaxEquivRows - a - b) :
          /\ compiled \in
                ({Frame("P5MIN", TRUE, t) : t \in TablesOfLen(FlaggedRows("P5MIN"), a)}
                   \cup {Frame("P5MIN", FALSE, t) :
                            t \in TablesOfLen(PlainRows("P5MIN"), a)})
                \X
                ({Frame("PREDISPATCH", TRUE, t) :
                     t \in TablesOfLen(FlaggedRows("PREDISPATCH"), b)}
                   \cup {Frame("PREDISPATCH", FALSE, t) :
                            t \in TablesOfLen(PlainRows("PREDISPATCH"), b)})
          /\ dispatchprice \in TablesOfLen(NemosisRows, c)
    /\ data_dir \in BOOLEAN
    /\ nemosis_cache = ~data_dir
    /\ files = <<>>
    /\ files0 = <<>>
    /\ loop_i = 0
    /\ invoked = {}
    /\ copy = <<"none", "none">>
    /\ forecast_df = <<>>
    /\ returned = <<>>
    /\ PipelineIdle
    /\ thresh_i = 0
    /\ saved = {}
    /\ thresh_frac = <<>>
    /\ fit_times = <<>>
    /\ horizon_minutes = 0
    /\ dummy = <<>>
    /\ bottom = <<>>
    /\ bars = <<>>
    /\ bin_i = 0

\* calculate_price_error(...) of historical-price-errors.py
CallHistorical ==
    /\ pc = "call_historical"
    /\ returned' = ("historical-price-errors" :>
                       calculate_price_error_historical(
                          compiled[1], compiled[2], dispatchprice, nemosis_cache))
    /\ pc' = "call_discount"
    /\ UNCHANGED <<pipelineVars, raised, scriptVars, dispatchprice, fetchVars,
                   analysisVars, plotVars>>

\* calculate_price_error(...) of discount-curve-fitting-2021.py
CallDiscount ==
    /\ pc = "call_discount"
    /\ returned' = returned @@ ("discount-curve-fitting-2021" :>
                       calculate_price_error_2021(compiled[1], compiled[2], dispatchprice))
    /\ pc' = "call_rugplots"
    /\ UNCHANGED <<pipelineVars, raised, scriptVars, dispatchprice, fetchVars,
                   analysisVars, plotVars>>

\* calculate_price_error(...) of price-error-rugplots-2021.py
CallRugplots ==
    /\ pc = "call_rugplots"
    /\ returned' = returned @@ ("price-error-rugplots-2021" :>
                       calculate_price_error_2021(compiled[1], compiled[2], dispatchprice))
    /\ pc' = "returned"
    /\ UNCHANGED <<pipelineVars, raised, scriptVars, dispatchprice, fetchVars,
                   analysisVars, plotVars>>

NextEquiv ==
    \/ CallHistorical
    \/ CallDiscount
    \/ CallRugplots

SpecEquiv == InitEquiv /\ [][NextEquiv]_vars

\* Both forecast frames of the comparison carry the INTERVENTION column.
BothFlagged ==
    /\ "INTERVENTION" \in compiled[1].columns
    /\ "INTERVENTION" \in compiled[2].columns

\* C27: once the three copies have been called on the same provider tables,
\* and both forecast tables carry an INTERVENTION column, each of them has
\* returned a table without raising and the three tables are the same.
C27_CopiesEquivalent ==
    pc = "returned" /\ BothFlagged =>
        \A s \in Scripts :
            /\ returned[s].raised = "none"
            /\ \A t \in Scripts : returned[s].df = returned[t].df

====
